---- MODULE Spec2Model ----
(***************************************************************************)
(* The offline YDS scheduler of src/yds/yds.py: calc_scheduling and the    *)
(* helpers it calls (get_intervals, max_intensity_interval, Task.cut).     *)
(*                                                                         *)
(* Times and workloads of the input are integers; the values the code      *)
(* derives from them by division (intensity, task_length, the start and    *)
(* end of an Execution) are modelled as exact rationals <<num, den>> in    *)
(* lowest terms with den > 0, so the model describes the algorithm in      *)
(* exact arithmetic and not the rounding of Python floats.                 *)
(***************************************************************************)
EXTENDS Integers, Sequences, FiniteSets, TLC

\* Bounds of the model.
MaxTasks == 3
MaxTime == 3
\* The workloads of an input are positive and sum to at most MaxWorkSum.
MaxWorkSum == 5
\* Bounds of the inputs with invalid tasks, which SpecAny adds.
MaxTasksAny == 2
MaxTimeAny == 2
MaxWorkAny == 1
\* Bound of the offset of the task CutSpec hands to Task.cut.
MaxOffset == 2

VARIABLES orig, tasks, scheduling, rounds, pc, result

vars == <<orig, tasks, scheduling, rounds, pc, result>>

----------------------------------------------------------------------------
\* Exact rational arithmetic.

Abs(x) == IF x < 0 THEN -x ELSE x

GCD[a \in Nat, b \in Nat] == IF b = 0 THEN a ELSE GCD[b, a % b]

\* The rational p[1]/p[2] (p[2] # 0) in lowest terms with a positive denominator.
Normal[p \in Int \X Int] ==
  LET g == GCD[Abs(p[1]), Abs(p[2])]
      s == IF p[2] < 0 THEN -1 ELSE 1
  IN  <<(s * p[1]) \div g, (s * p[2]) \div g>>

\* The rational n/d.
Rat(n, d) == Normal[<<n, d>>]

\* The integer i as a rational.
R(i) == <<i, 1>>

\* The arithmetic of rationals, as functions of the values of the operands.
Q == Int \X Int
AddQ[a \in Q, b \in Q] == Normal[<<a[1] * b[2] + b[1] * a[2], a[2] * b[2]>>]
SubQ[a \in Q, b \in Q] == Normal[<<a[1] * b[2] - b[1] * a[2], a[2] * b[2]>>]
MulQ[a \in Q, b \in Q] == Normal[<<a[1] * b[1], a[2] * b[2]>>]
DivQ[a \in Q, b \in Q] == Normal[<<a[1] * b[2], a[2] * b[1]>>]
RAdd(a, b) == AddQ[a, b]
RSub(a, b) == SubQ[a, b]
RMul(a, b) == MulQ[a, b]
RDiv(a, b) == DivQ[a, b]
RLt(a, b) == a[1] * b[2] < b[1] * a[2]
RLe(a, b) == a[1] * b[2] <= b[1] * a[2]

----------------------------------------------------------------------------
\* Task.__init__: offset starts at 0; nr is the caller's identifier, here the
\* position of the task in the input list.
Task(nr, release, dead, c) ==
  [nr |-> nr, release |-> release, dead |-> dead, c |-> c, offset |-> 0]

\* Execution.__init__
Execution(nr, start, end, frequency) ==
  [nr |-> nr, start |-> start, end |-> end, frequency |-> frequency]

\* Task.cut with a strict comparison in its first test.
CutCaseStrictAfter(t, start, end) ==
  IF t.release > end THEN 1
  ELSE IF t.dead <= start THEN 2
  ELSE IF t.release < start /\ t.dead > end THEN 3
  ELSE IF t.dead > start /\ t.release < start THEN 4
  ELSE IF t.release < end /\ t.dead > end THEN 5
  ELSE 6

\* Task.cut with its third and fourth tests in the other order.
CutCaseSwapped(t, start, end) ==
  IF t.release >= end THEN 1
  ELSE IF t.dead <= start THEN 2
  ELSE IF t.dead > start /\ t.release < start THEN 4
  ELSE IF t.release < start /\ t.dead > end THEN 3
  ELSE IF t.release < end /\ t.dead > end THEN 5
  ELSE 6

\* The branch of Task.cut a task takes for the interval [start, end); 6 is the
\* raise after the five cases.
CutCase(t, start, end) ==
  IF t.release >= end THEN 1
  ELSE IF t.dead <= start THEN 2
  ELSE IF t.release < start /\ t.dead > end THEN 3
  ELSE IF t.dead > start /\ t.release < start THEN 4
  ELSE IF t.release < end /\ t.dead > end THEN 5
  ELSE 6

\* Task.cut with a slip in its last case: the deadline is not moved back.
cut_keeps_dead(t, start, end) ==
  LET distance == end - start
      k == CutCase(t, start, end)
  IN  CASE k = 1 -> [t EXCEPT !.dead = @ - distance, !.release = @ - distance,
                               !.offset = @ + distance]
        [] k = 2 -> t
        [] k = 3 -> [t EXCEPT !.dead = @ - distance]
        [] k = 4 -> [t EXCEPT !.dead = start]
        [] k = 5 -> [t EXCEPT !.offset = @ + distance, !.release = start]
        [] OTHER -> t

\* Task.cut with a slip in its third case: the deadline is not moved back.
cut_inside_unchanged(t, start, end) ==
  LET distance == end - start
      k == CutCase(t, start, end)
  IN  CASE k = 1 -> [t EXCEPT !.dead = @ - distance, !.release = @ - distance,
                               !.offset = @ + distance]
        [] k = 2 -> t
        [] k = 3 -> t
        [] k = 4 -> [t EXCEPT !.dead = start]
        [] k = 5 -> [t EXCEPT !.offset = @ + distance, !.release = start,
                               !.dead = @ - distance]
        [] OTHER -> t

\* Task.cut with a slip in its first case: the release is not moved back.
cut_shifts_dead_only(t, start, end) ==
  LET distance == end - start
      k == CutCase(t, start, end)
  IN  CASE k = 1 -> [t EXCEPT !.dead = @ - distance, !.offset = @ + distance]
        [] k = 2 -> t
        [] k = 3 -> [t EXCEPT !.dead = @ - distance]
        [] k = 4 -> [t EXCEPT !.dead = start]
        [] k = 5 -> [t EXCEPT !.offset = @ + distance, !.release = start,
                               !.dead = @ - distance]
        [] OTHER -> t

\* Task.cut with a slip in its last case: the offset is not increased.
cut_forgets_offset(t, start, end) ==
  LET distance == end - start
      k == CutCase(t, start, end)
  IN  CASE k = 1 -> [t EXCEPT !.dead = @ - distance, !.release = @ - distance,
                               !.offset = @ + distance]
        [] k = 2 -> t
        [] k = 3 -> [t EXCEPT !.dead = @ - distance]
        [] k = 4 -> [t EXCEPT !.dead = start]
        [] k = 5 -> [t EXCEPT !.release = start, !.dead = @ - distance]
        [] OTHER -> t

\* Task.cut, for a task it does not raise on.
cut(t, start, end) ==
  LET distance == end - start
      k == CutCase(t, start, end)
  IN  CASE k = 1 -> [t EXCEPT !.dead = @ - distance, !.release = @ - distance,
                               !.offset = @ + distance]
        [] k = 2 -> t
        [] k = 3 -> [t EXCEPT !.dead = @ - distance]
        [] k = 4 -> [t EXCEPT !.dead = start]
        [] k = 5 -> [t EXCEPT !.offset = @ + distance, !.release = start,
                               !.dead = @ - distance]
        [] OTHER -> t

\* The sum of the workloads of a list of tasks.
SumC(ts) ==
  LET sum[i \in 0..Len(ts)] == IF i = 0 THEN 0 ELSE sum[i - 1] + ts[i].c
  IN  sum[Len(ts)]

\* Interval.__init__ with the length of the interval taken as start - end.
IntervalNegated(start, end, ts) ==
  [start |-> start, end |-> end, tasks |-> ts,
   intensity |-> RDiv(R(SumC(ts)), R(start - end))]

\* Interval.__init__; start < end where get_intervals builds one.
Interval(start, end, ts) ==
  [start |-> start, end |-> end, tasks |-> ts,
   intensity |-> RDiv(R(SumC(ts)), R(end - start))]

IsContained(t, start, end) == t.release >= start /\ t.dead <= end

\* get_intervals: the candidates, as a set: the code lists them in the iteration
\* order of two Python sets, which is not specified.
get_intervals(ts) ==
  LET releases == {ts[i].release : i \in DOMAIN ts}
      deads == {ts[i].dead : i \in DOMAIN ts}
  IN  UNION {{Interval(p[1], p[2], contained) :
                contained \in {SelectSeq(ts, LAMBDA t : IsContained(t, p[1], p[2]))}} :
             p \in {q \in releases \X deads : q[1] < q[2]}}

\* min() in the place of max().
min_intensity_interval(intervals) ==
  {iv \in intervals : \A o \in intervals : RLe(iv.intensity, o.intensity)}

\* max_intensity_interval: max() returns the first candidate of maximum
\* intensity; the order of the candidates being unspecified, any candidate of
\* maximum intensity can be the one returned.
max_intensity_interval(intervals) ==
  {iv \in intervals : \A o \in intervals : RLe(o.intensity, iv.intensity)}

\* A sort by deadline that is not stable: tasks of equal deadline are reversed.
SortedByDeadUnstable(s) ==
  LET before(i) == {j \in DOMAIN s : \/ s[j].dead < s[i].dead
                                     \/ s[j].dead = s[i].dead /\ j > i}
  IN  [k \in 1..Len(s) |-> s[CHOOSE i \in DOMAIN s : Cardinality(before(i)) = k - 1]]

\* sorted(max_int.tasks, key=lambda task: task.dead): the tasks by ascending
\* deadline, those of equal deadline in the order they had (sorted is stable).
SortedByDead(s) ==
  LET before(i) == {j \in DOMAIN s : \/ s[j].dead < s[i].dead
                                     \/ s[j].dead = s[i].dead /\ j < i}
  IN  [k \in 1..Len(s) |-> s[CHOOSE i \in DOMAIN s : Cardinality(before(i)) = k - 1]]

\* The for loop with task_length not scaled by the length of the interval.
AssignUnscaled(to_execute, offset, c_sum, int_length, intensity) ==
  LET task_length(k) == RDiv(R(to_execute[k].c), c_sum)
      after[k \in 0..Len(to_execute)] ==
        IF k = 0 THEN offset ELSE RAdd(after[k - 1], task_length(k))
  IN  [k \in 1..Len(to_execute) |->
        Execution(to_execute[k].nr,
                  RAdd(after[k - 1], R(to_execute[k].offset)),
                  RAdd(RAdd(after[k - 1], R(to_execute[k].offset)), task_length(k)),
                  intensity)]

\* The for loop without offset += task_length.
AssignNoAdvance(to_execute, offset, c_sum, int_length, intensity) ==
  LET task_length(k) == RMul(RDiv(R(to_execute[k].c), c_sum), int_length)
  IN  [k \in 1..Len(to_execute) |->
        Execution(to_execute[k].nr,
                  RAdd(offset, R(to_execute[k].offset)),
                  RAdd(RAdd(offset, R(to_execute[k].offset)), task_length(k)),
                  intensity)]

\* The Executions the for loop appends for to_execute; offset is the value of
\* the local of that name at the entry of the loop, after[k] its value after k
\* iterations.
Assign(to_execute, offset, c_sum, int_length, intensity) ==
  LET task_length(k) == RMul(RDiv(R(to_execute[k].c), c_sum), int_length)
      after[k \in 0..Len(to_execute)] ==
        IF k = 0 THEN offset ELSE RAdd(after[k - 1], task_length(k))
  IN  [k \in 1..Len(to_execute) |->
        Execution(to_execute[k].nr,
                  RAdd(after[k - 1], R(to_execute[k].offset)),
                  RAdd(RAdd(after[k - 1], R(to_execute[k].offset)), task_length(k)),
                  intensity)]

\* The loop without tasks.remove(task).
RemainingAll(ts, to_execute) == ts

\* tasks.remove(task) for every task of to_execute.
Remaining(ts, to_execute) ==
  SelectSeq(ts, LAMBDA t : \A i \in DOMAIN to_execute : to_execute[i] # t)

\* The list comprehension of cuts: the index of the first task cut raises on, 0
\* when it raises on none.
FirstRaise(ts, start, end) ==
  LET bad == {i \in DOMAIN ts : CutCase(ts[i], start, end) = 6}
  IN  IF bad = {} THEN 0 ELSE CHOOSE i \in bad : \A j \in bad : i <= j

\* The return statement without the sort.
Unsorted(s) == s

\* sorted(scheduling, key=lambda execute: execute.start): the Executions by
\* ascending start, those of equal start in the order they had.
SortedByStart(s) ==
  LET before(i) == {j \in DOMAIN s : \/ RLt(s[j].start, s[i].start)
                                     \/ s[j].start = s[i].start /\ j < i}
  IN  [k \in 1..Len(s) |-> s[CHOOSE i \in DOMAIN s : Cardinality(before(i)) = k - 1]]

----------------------------------------------------------------------------
\* Inputs.

\* The windows release < deadline within the time bound.
Windows == {w \in (0..MaxTime) \X (0..MaxTime) : w[1] < w[2]}

\* The lists of n positive workloads of sum at most budget.
RECURSIVE WorkLists(_, _)
WorkLists(n, budget) ==
  IF n = 0 THEN {<<>>}
  ELSE UNION {{<<c>> \o v : v \in WorkLists(n - 1, budget - c)} :
                c \in 1..(budget - (n - 1))}

IsValid(t) == t.release < t.dead /\ t.c > 0

ValidInput == \A i \in DOMAIN orig : IsValid(orig[i])

\* Before the call: nothing to schedule yet.
Init ==
  /\ orig = <<>>
  /\ tasks = <<>>
  /\ scheduling = <<>>
  /\ rounds = <<>>
  /\ pc = "IDLE"
  /\ result = <<>>

\* The entry of calc_scheduling(input): scheduling = [].
Enter(input) ==
  /\ orig' = input
  /\ tasks' = input
  /\ scheduling' = <<>>
  /\ rounds' = <<>>
  /\ pc' = "RUNNING"
  /\ result' = <<>>

\* A call on a valid input: a list of at most MaxTasks tasks.
Call ==
  /\ pc = "IDLE"
  /\ \E n \in 0..MaxTasks : \E w \in [1..n -> Windows] :
       \E c \in WorkLists(n, MaxWorkSum) :
         Enter([i \in 1..n |-> Task(i, w[i][1], w[i][2], c[i])])

\* A call on a list of at most MaxTasksAny tasks with any window and workload,
\* invalid ones included.
CallInvalid ==
  /\ pc = "IDLE"
  /\ \E n \in 0..MaxTasksAny :
       \E f \in [1..n -> (0..MaxTimeAny) \X (0..MaxTimeAny) \X (-1..MaxWorkAny)] :
         Enter([i \in 1..n |-> Task(i, f[i][1], f[i][2], f[i][3])])

\* A task with any window, workload and offset, as a round can leave it in the
\* working set, and an interval [start, end) to cut it by: tasks holds the
\* task, orig the task as it was, rounds the interval.
CutCall ==
  /\ pc = "IDLE"
  /\ \E w \in Windows, iv \in Windows, c \in 1..MaxWorkSum, off \in 0..MaxOffset :
       /\ orig' = <<[Task(1, w[1], w[2], c) EXCEPT !.offset = off]>>
       /\ tasks' = <<[Task(1, w[1], w[2], c) EXCEPT !.offset = off]>>
       /\ rounds' = <<Interval(iv[1], iv[2], <<>>)>>
  /\ scheduling' = <<>>
  /\ result' = <<>>
  /\ pc' = "CUT"

\* task.cut(start, end) on that task: the task is changed in place, or cut
\* raises.
CutApply ==
  /\ pc = "CUT"
  /\ IF CutCase(tasks[1], rounds[1].start, rounds[1].end) = 6
     THEN pc' = "ERROR" /\ UNCHANGED tasks
     ELSE /\ pc' = "CUT_DONE"
          /\ tasks' = <<cut(tasks[1], rounds[1].start, rounds[1].end)>>
  /\ UNCHANGED <<orig, scheduling, rounds, result>>

----------------------------------------------------------------------------
\* The body of the while loop of calc_scheduling from line 157 on, max_int
\* being the candidate max_intensity_interval returned.
RoundWith(max_int) ==
  \E to_execute \in {SortedByDead(max_int.tasks)} :
  \E c_sum \in {R(SumC(to_execute))} :
  \E rest \in {Remaining(tasks, to_execute)} :
  \E raise \in {FirstRaise(rest, max_int.start, max_int.end)} :
    /\ rounds' = Append(rounds, max_int)
    /\ IF to_execute # <<>> /\ c_sum[1] = 0
       THEN \* ZeroDivisionError in task.c / c_sum
            /\ pc' = "ERROR"
            /\ UNCHANGED <<tasks, scheduling>>
       ELSE /\ scheduling' = scheduling \o
                 Assign(to_execute, R(max_int.start), c_sum,
                        R(max_int.end - max_int.start), max_int.intensity)
            /\ IF raise # 0
               THEN \* cut raises: the tasks before that one are already cut
                    /\ pc' = "ERROR"
                    /\ tasks' = [i \in DOMAIN rest |->
                                   IF i < raise
                                   THEN cut(rest[i], max_int.start, max_int.end)
                                   ELSE rest[i]]
               ELSE /\ pc' = "RUNNING"
                    /\ tasks' = [i \in DOMAIN rest |->
                                   cut(rest[i], max_int.start, max_int.end)]

\* One iteration of the while loop of calc_scheduling.
Round ==
  /\ pc = "RUNNING"
  /\ Len(tasks) > 0
  /\ \E intervals \in {get_intervals(tasks)} :
       IF intervals = {}
       THEN \* max() of an empty list raises ValueError
            /\ pc' = "ERROR"
            /\ UNCHANGED <<tasks, scheduling, rounds>>
       ELSE \E max_int \in max_intensity_interval(intervals) : RoundWith(max_int)
  /\ UNCHANGED <<orig, result>>

\* The loop exit and the return statement.
Return ==
  /\ pc = "RUNNING"
  /\ Len(tasks) = 0
  /\ result' = SortedByStart(scheduling)
  /\ pc' = "DONE"
  /\ UNCHANGED <<orig, tasks, scheduling, rounds>>

Next == Call \/ Round \/ Return

\* calc_scheduling on valid inputs.
Spec == Init /\ [][Next]_vars

\* Once called, the loop runs on its own: only its condition stops it.
FairSpec == Init /\ [][Next]_vars /\ WF_vars(Round \/ Return)

NextAny == Call \/ CallInvalid \/ Round \/ Return

\* calc_scheduling on any list of tasks, valid or not.
SpecAny == Init /\ [][NextAny]_vars

NextCut == CutCall \/ CutApply

\* Task.cut on its own, on any task and interval.
CutSpec == Init /\ [][NextCut]_vars

\* calc_scheduling on valid inputs, observed round by round: the runs of Spec.
RoundSpec == Init /\ [][Next]_vars

\* calc_scheduling on valid inputs, observed Execution by Execution: the runs
\* of Spec.
PlacementSpec == Init /\ [][Next]_vars

----------------------------------------------------------------------------
\* Properties of calc_scheduling.

\* The positions of the Executions of the task with identifier nr in a list.
ExecutionsOf(nr, list) == {k \in DOMAIN list : list[k].nr = nr}

InWorkingSet(nr) == \E k \in DOMAIN tasks : tasks[k].nr = nr

\* Two Executions overlap: their ranges [start, end) share a point.
Overlap(x, y) == RLt(x.start, y.end) /\ RLt(y.start, x.end)

\* C1: on a valid input every task has exactly one Execution in the returned
\* schedule and no identifier appears in two Executions; while the loop runs a
\* task is either still in the working set or has its one Execution.
C1_OneExecutionPerTask ==
  /\ \A i \in DOMAIN orig :
       Cardinality(ExecutionsOf(orig[i].nr, scheduling))
         + (IF InWorkingSet(orig[i].nr) THEN 1 ELSE 0) = 1
  /\ pc = "DONE" =>
       /\ Len(result) = Len(orig)
       /\ \A i \in DOMAIN orig : Cardinality(ExecutionsOf(orig[i].nr, result)) = 1

\* A run of three tasks returned after fewer rounds than tasks: one round
\* scheduled several tasks.
C1_Witness ==
  pc = "DONE" /\ Len(orig) = 3 /\ Len(rounds) = 2 /\ Len(result) = 3

\* C2: every returned Execution lies within the original window of its task:
\* start >= release and end <= deadline.
C2_WithinOriginalWindow ==
  pc = "DONE" =>
    \A k \in DOMAIN result :
      /\ RLe(R(orig[result[k].nr].release), result[k].start)
      /\ RLe(result[k].end, R(orig[result[k].nr].dead))

\* C3: the Executions of two different tasks of the returned schedule never
\* overlap.
C3_NoOverlap ==
  pc = "DONE" =>
    \A j, k \in DOMAIN result :
      result[j].nr # result[k].nr => ~Overlap(result[j], result[k])

C5_WorkConservation ==
  \A k \in DOMAIN scheduling :
    RMul(RSub(scheduling[k].end, scheduling[k].start), scheduling[k].frequency)
      = R(orig[scheduling[k].nr].c)

\* An Execution of a later round, of a duration that is no integer, at a
\* frequency that is no integer.
C5_Witness ==
  /\ Len(rounds) >= 2
  /\ \E k \in DOMAIN scheduling :
       /\ scheduling[k].frequency = rounds[Len(rounds)].intensity
       /\ scheduling[k].frequency[2] > 1
       /\ RSub(scheduling[k].end, scheduling[k].start)[2] > 1

\* C6: every iteration of the loop removes at least one task from the working
\* set, and the loop ends: DONE is reached.
C6_Terminates ==
  /\ [][(pc = "RUNNING" /\ tasks # <<>>) => Len(tasks') < Len(tasks)]_vars
  /\ (pc = "RUNNING") ~> (pc = "DONE")

\* DONE after as many rounds as there were tasks, each round removing one.
C6_Witness ==
  pc = "DONE" /\ Len(rounds) = 3 /\ Len(orig) = 3 /\ tasks = <<>>

\* C7: an input with an invalid task (release >= deadline or workload <= 0) is
\* rejected before any round: no Execution is computed and nothing is returned.
C7_InvalidRejected ==
  ~ValidInput => (scheduling = <<>> /\ result = <<>> /\ pc # "DONE")

AllSameWindow ==
  \A i, j \in DOMAIN orig :
    orig[i].release = orig[j].release /\ orig[i].dead = orig[j].dead

\* The sum of the workloads of the first n input tasks.
RECURSIVE WorkBefore(_)
WorkBefore(n) == IF n = 0 THEN 0 ELSE orig[n].c + WorkBefore(n - 1)

C9_SortedByStart ==
  pc = "DONE" =>
    \A k \in 1..(Len(result) - 1) : RLe(result[k].start, result[k + 1].start)

\* A returned schedule that the rounds did not produce in start order.
C9_Witness ==
  /\ pc = "DONE"
  /\ Len(result) >= 2
  /\ result # scheduling
  /\ \E k \in 1..(Len(scheduling) - 1) :
       RLt(scheduling[k + 1].start, scheduling[k].start)

----------------------------------------------------------------------------
\* Properties of Task.cut.

\* The cases of the cutting table that apply to the task t and [cstart, cend).
TableCases(t, cstart, cend) ==
  {k \in 1..5 :
     \/ k = 1 /\ t.release >= cend
     \/ k = 2 /\ t.dead <= cstart
     \/ k = 3 /\ t.release < cstart /\ t.dead > cend
     \/ k = 4 /\ t.dead > cstart /\ t.release < cstart /\ ~(t.dead > cend)
     \/ k = 5 /\ t.release < cend /\ t.dead > cend /\ ~(t.release < cstart)}

\* The task the cutting table prescribes in case k.
TableAction(k, t, cstart, cend) ==
  LET distance == cend - cstart
  IN  CASE k = 1 -> [nr |-> t.nr, c |-> t.c, release |-> t.release - distance,
                     dead |-> t.dead - distance, offset |-> t.offset + distance]
        [] k = 2 -> t
        [] k = 3 -> [nr |-> t.nr, c |-> t.c, release |-> t.release,
                     dead |-> t.dead - distance, offset |-> t.offset]
        [] k = 4 -> [nr |-> t.nr, c |-> t.c, release |-> t.release,
                     dead |-> cstart, offset |-> t.offset]
        [] k = 5 -> [nr |-> t.nr, c |-> t.c, release |-> cstart,
                     dead |-> t.dead - distance, offset |-> t.offset + distance]

\* C11: for a task with release < deadline that an interval cstart < cend does
\* not contain, exactly one case of the cutting table applies, Task.cut does not
\* raise and leaves the task as that case prescribes; workload and identifier
\* are unchanged.
C11_CutFollowsTable ==
  (pc \in {"CUT_DONE", "ERROR"}
     /\ ~IsContained(orig[1], rounds[1].start, rounds[1].end)) =>
    /\ pc = "CUT_DONE"
    /\ Cardinality(TableCases(orig[1], rounds[1].start, rounds[1].end)) = 1
    /\ \A k \in TableCases(orig[1], rounds[1].start, rounds[1].end) :
         tasks[1] = TableAction(k, orig[1], rounds[1].start, rounds[1].end)
    /\ tasks[1].c = orig[1].c
    /\ tasks[1].nr = orig[1].nr

\* A task that overlapped the end of the interval, cut: its release, deadline
\* and offset have all changed.
C11_Witness ==
  /\ pc = "CUT_DONE"
  /\ TableCases(orig[1], rounds[1].start, rounds[1].end) = {5}
  /\ tasks[1].release # orig[1].release
  /\ tasks[1].dead # orig[1].dead
  /\ tasks[1].offset > orig[1].offset

----------------------------------------------------------------------------
\* Properties of the rounds of calc_scheduling.

\* The task of the working set with identifier nr as it was in the input.
Original(nr) == orig[CHOOSE i \in DOMAIN orig : orig[i].nr = nr]

\* C12: on a valid input the raise at the end of Task.cut is never reached:
\* the run never aborts, and whichever critical interval the next round takes,
\* every task it leaves in the working set matches one of the five cases.
C12_CutNeverRaises ==
  /\ pc # "ERROR"
  /\ (pc = "RUNNING" /\ tasks # <<>>) =>
       \A max_int \in max_intensity_interval(get_intervals(tasks)) :
         \A rest \in {Remaining(tasks, SortedByDead(max_int.tasks))} :
           \A i \in DOMAIN rest :
             CutCase(rest[i], max_int.start, max_int.end) \in 1..5

\* After a round, two tasks are left that the cut treated differently: one was
\* moved back (it carries an offset), one had its deadline lowered in place.
C12_Witness ==
  /\ pc = "RUNNING"
  /\ Len(rounds) = 1
  /\ \E i, j \in DOMAIN tasks :
       /\ tasks[i].offset > 0
       /\ tasks[j].offset = 0
       /\ tasks[j].dead < Original(tasks[j].nr).dead

\* The number of Executions appended before round r + 1.
ExecutedBefore[r \in Nat] ==
  IF r = 0 THEN 0 ELSE ExecutedBefore[r - 1] + Len(rounds[r].tasks)

C14_CandidatesAndMaximum ==
  (pc = "RUNNING" /\ tasks # <<>>) =>
    \A intervals \in {get_intervals(tasks)} :
      /\ intervals # {}
      /\ \A i \in DOMAIN tasks :
           \E iv \in intervals :
             iv.start = tasks[i].release /\ iv.end = tasks[i].dead
      /\ max_intensity_interval(intervals) # {}
      /\ \A m \in max_intensity_interval(intervals) :
           /\ m \in intervals
           /\ RLt(R(0), m.intensity)
           /\ \A o \in intervals : RLe(o.intensity, m.intensity)

\* After a round, a working set with at least three candidates, not all of the
\* maximum intensity.
C14_Witness ==
  /\ pc = "RUNNING"
  /\ Len(rounds) >= 1
  /\ Cardinality(get_intervals(tasks)) >= 3
  /\ max_intensity_interval(get_intervals(tasks)) # get_intervals(tasks)

\* C15: after any number of rounds every task of the working set has
\* release <= deadline.
C15_WindowNotInverted ==
  \A i \in DOMAIN tasks : tasks[i].release <= tasks[i].dead

\* After two rounds, a task is left whose window both cuts have narrowed.
C15_Witness ==
  /\ pc = "RUNNING"
  /\ Len(rounds) = 2
  /\ \E i \in DOMAIN tasks :
       /\ tasks[i].dead - tasks[i].release = 1
       /\ Original(tasks[i].nr).dead - Original(tasks[i].nr).release = 3

\* C16: the window of every task of the working set, translated by its offset,
\* lies inside the window the task had in the input.
C16_TranslatedWindowInside ==
  \A i \in DOMAIN tasks :
    /\ tasks[i].release + tasks[i].offset >= Original(tasks[i].nr).release
    /\ tasks[i].dead + tasks[i].offset <= Original(tasks[i].nr).dead

\* A task left in the working set whose cut moved its release forward in the
\* original timeline (it overlapped the end of a critical interval).
C16_Witness ==
  /\ pc = "RUNNING"
  /\ \E i \in DOMAIN tasks :
       /\ tasks[i].offset > 0
       /\ tasks[i].release + tasks[i].offset > Original(tasks[i].nr).release
       /\ tasks[i].dead + tasks[i].offset = Original(tasks[i].nr).dead

\* C17: the intensity of the critical interval of a round is at most that of
\* the round before, so the frequencies of the Executions do not increase in
\* the order the rounds emit them.
C17_IntensityNonIncreasing ==
  /\ \A r \in 1..(Len(rounds) - 1) :
       RLe(rounds[r + 1].intensity, rounds[r].intensity)
  /\ \A k \in 1..(Len(scheduling) - 1) :
       RLe(scheduling[k + 1].frequency, scheduling[k].frequency)

\* Three rounds, the last of a lower intensity than the first.
C17_Witness ==
  /\ Len(rounds) = 3
  /\ Len(scheduling) = 3
  /\ RLt(rounds[3].intensity, rounds[1].intensity)

----------------------------------------------------------------------------
\* Independence of the tie-break of max_intensity_interval.

\* The critical interval one fixed tie-break takes for the working set ts.
CanonicalChoice(ts) ==
  CHOOSE m \in max_intensity_interval(get_intervals(ts)) : TRUE

\* The pairs <<nr, frequency>> of the run of calc_scheduling on ts in which
\* every tie is broken by CanonicalChoice.
RECURSIVE CanonicalRun(_)
CanonicalRun(ts) ==
  IF ts = <<>> THEN {}
  ELSE LET max_int == CanonicalChoice(ts)
           to_execute == SortedByDead(max_int.tasks)
           rest == Remaining(ts, to_execute)
       IN  {<<to_execute[k].nr, max_int.intensity>> : k \in DOMAIN to_execute}
             \cup CanonicalRun([i \in DOMAIN rest |->
                                 cut(rest[i], max_int.start, max_int.end)])

\* C18: the frequency every task gets does not depend on which of several
\* critical intervals of equal maximum intensity a round takes: whatever the
\* choices of the run, its result gives each task the frequency it gets in the
\* run with the fixed tie-break, so any two runs on one input agree.
C18_FrequencyIndependentOfTieBreak ==
  (pc = "DONE") =>
    {<<result[k].nr, result[k].frequency>> : k \in DOMAIN result}
      = CanonicalRun(orig)

\* A finished run whose first round had several critical intervals to choose
\* from and took another one than the fixed tie-break.
C18_Witness ==
  /\ pc = "DONE"
  /\ Len(orig) >= 2
  /\ Cardinality(max_intensity_interval(get_intervals(orig))) >= 2
  /\ rounds[1] # CanonicalChoice(orig)

====
